---- MODULE Spec2Model ----
(***************************************************************************)
(* Session lifecycle manager (backend/core/session_manager.py) and turn    *)
(* orchestrator (backend/core/orchestrator.py) of your-cubicle-ally.       *)
(*                                                                         *)
(* The SessionManager keeps a dict cache of GameState objects in front of  *)
(* a SQLite table of JSON blobs.  Orchestrator.process_turn is a coroutine *)
(* whose atomic segments are delimited by its awaits (safety check,        *)
(* judge); it is modelled segment by segment.                              *)
(*                                                                         *)
(* Orchestrator.process_turn calls                                         *)
(*     self.guardrail.fix_evaluator_output(evaluation, state.scoring)      *)
(* (orchestrator.py:156) while GuardrailAgent.fix_evaluator_output is      *)
(* declared as (self, evaluation) (guardrail_agent.py:193): the call       *)
(* raises TypeError for every evaluation, so no process_turn call gets     *)
(* past the evaluation stage.  The model follows the code.                 *)
(***************************************************************************)
EXTENDS Integers, Sequences, FiniteSets, TLC

VARIABLES cache, db, actor_agents, call, call2, last, probe, mock_sessions

vars == <<cache, db, actor_agents, call, call2, last, probe, mock_sessions>>

(* the variables outside the SessionManager and the Orchestrator: the     *)
(* argument and result of a function under check, and the _sessions dict  *)
(* of the mock API routes                                                 *)
aux == <<probe, mock_sessions>>

----------------------------------------------------------------------------
(* Bounds of the model *)

MaxTurns == 2
MaxStepsBound == 2
MaxTurnsEach == 1

(* Program constants *)

MaxChoiceLen == 600
HpCap == 100
DefaultMaxSteps == 10

SessionIds == {"s1"}
ActorIds == {"a1"}

StartHPs == {15, 100}
Deltas == {-150, -20, 10}
TurnScores == {50}
JudgeScores == {50}
JudgeDeltas == {-20, 20}

(* Python's None / a missing key, kept apart from every real value *)
NoSession == [none |-> "session"]
NoEval == [none |-> "evaluation"]
NoTurn == [none |-> "turn"]
NoRow == <<>>

(* dict operations: a dict is a function whose DOMAIN is its key set *)
EmptyDict == [k \in {} |-> NoSession]
DictSet(d, k, v) == [x \in DOMAIN d \cup {k} |-> IF x = k THEN v ELSE d[x]]
DictPop_all(d, k) == [x \in {} |-> d[x]]

DictPop(d, k) == [x \in DOMAIN d \ {k} |-> d[x]]

Min(a, b) == IF a < b THEN a ELSE b
Max(a, b) == IF a > b THEN a ELSE b

----------------------------------------------------------------------------
(* Text: a str is a sequence of characters *)

IsSpace(c) == c = " "

RECURSIVE LStrip(_)
LStrip(s) == IF s # <<>> /\ IsSpace(Head(s)) THEN LStrip(Tail(s)) ELSE s

RECURSIVE RStrip(_)
RStrip(s) ==
    IF s # <<>> /\ IsSpace(s[Len(s)]) THEN RStrip(SubSeq(s, 1, Len(s) - 1)) ELSE s

Strip_identity(s) == s

Strip(s) == RStrip(LStrip(s))

LowerChar(c) ==
    CASE c = "A" -> "a"
      [] c = "B" -> "b"
      [] OTHER -> c

Lower(s) == [i \in 1..Len(s) |-> LowerChar(s[i])]

Repeat(c, n) == [i \in 1..n |-> c]

MenuLabel == <<"A", "b">>

PlayerInputs ==
    { <<>>,
      <<" ", " ">>,
      <<" ", "a", "B", " ">>,
      <<"b", "a">>,
      Repeat("a", MaxChoiceLen + 1),
      <<" ">> \o Repeat("a", MaxChoiceLen) }

----------------------------------------------------------------------------
(* Data model (core/game_state.py) *)

Evaluation(score, hp_delta, crit) ==
    [score |-> score, hp_delta |-> hp_delta, is_critical_failure |-> crit]

Turn(step, choices, evaluation, hp_delta, resolved_early) ==
    [step |-> step, choices_offered |-> choices, evaluation |-> evaluation,
     hp_delta |-> hp_delta, resolved_early |-> resolved_early]

Message(role, content) == [role |-> role, content |-> content]

FreshActors == [a \in ActorIds |-> [memory |-> <<>>, current_directive |-> <<>>]]

(* characters as ActorAgent.react and the actor loop leave them: two      *)
(* messages per reaction in memory, the narrator's directive set          *)
TalkedActors ==
    [a \in ActorIds |->
        [memory |-> <<Message("user", "situation"), Message("model", "line")>>,
         current_directive |-> <<"d">>]]

EntryTurn == Turn(0, <<MenuLabel>>, NoEval, 0, FALSE)

PlayerProfile(name) == [name |-> name, role |-> "engineer"]

(* ScoringConfig defaults *)
ScoringConfig ==
    [great |-> [min |-> 5, max |-> 15],
     good  |-> [min |-> -5, max |-> 0],
     poor  |-> [min |-> -15, max |-> -5],
     bad   |-> [min |-> -25, max |-> -15]]

(* the GameState SessionInitializer.create_session builds *)
GameState(session_id, actors, max_steps, starting_hp) ==
    [session_id |-> session_id,
     player_profile |-> PlayerProfile(session_id),
     module_id |-> "module",
     scenario_id |-> "scenario",
     actors |-> actors,
     current_step |-> 0,
     max_steps |-> max_steps,
     starting_hp |-> starting_hp,
     player_hp |-> starting_hp,
     scoring |-> ScoringConfig,
     allow_early_resolution |-> TRUE,
     history |-> <<EntryTurn>>,
     status |-> "active"]

(* model_dump_json / model_validate_json: the row holds the fields in     *)
(* declaration order; validation rebuilds the object from them.           *)
ModelDumpJson(state) ==
    <<state.session_id, state.player_profile, state.module_id, state.scenario_id,
      state.actors, state.current_step, state.max_steps, state.starting_hp,
      state.player_hp, state.scoring, state.allow_early_resolution,
      state.history, state.status>>

ModelValidateJson(row) ==
    [session_id |-> row[1],
     player_profile |-> row[2],
     module_id |-> row[3],
     scenario_id |-> row[4],
     actors |-> row[5],
     current_step |-> row[6],
     max_steps |-> row[7],
     starting_hp |-> row[8],
     player_hp |-> row[9],
     scoring |-> row[10],
     allow_early_resolution |-> row[11],
     history |-> row[12],
     status |-> row[13]]

----------------------------------------------------------------------------
(* SessionManager helpers *)

(* _persist: upsert of the serialised state *)
Persist(d, sid, state) == DictSet(d, sid, ModelDumpJson(state))

(* get: cache first, then the table; NoSession stands for KeyError *)
Get(sid) ==
    IF sid \in DOMAIN cache THEN cache[sid]
    ELSE IF sid \in DOMAIN db THEN ModelValidateJson(db[sid])
    ELSE NoSession

EffectiveDelta_unclamped(hp_delta) == hp_delta

EffectiveDelta(hp_delta) == Min(0, hp_delta)

ClampHP_noFloor(hp) == Min(HpCap, hp)

ClampHP(hp) == Max(0, Min(HpCap, hp))

IsCritical(turn) ==
    turn.evaluation # NoEval /\ turn.evaluation.is_critical_failure

EndStatus_strictZero(status, player_hp, current_step, max_steps, turn) ==
    IF player_hp < 0 \/ IsCritical(turn) THEN "lost"
    ELSE IF current_step >= max_steps \/ turn.resolved_early THEN "won"
    ELSE status

EndStatus_strictSteps(status, player_hp, current_step, max_steps, turn) ==
    IF player_hp <= 0 \/ IsCritical(turn) THEN "lost"
    ELSE IF current_step > max_steps \/ turn.resolved_early THEN "won"
    ELSE status

EndStatus_wonFirst(status, player_hp, current_step, max_steps, turn) ==
    IF current_step >= max_steps \/ turn.resolved_early THEN "won"
    ELSE IF player_hp <= 0 \/ IsCritical(turn) THEN "lost"
    ELSE status

EndStatus(status, player_hp, current_step, max_steps, turn) ==
    IF player_hp <= 0 \/ IsCritical(turn) THEN "lost"
    ELSE IF current_step >= max_steps \/ turn.resolved_early THEN "won"
    ELSE status

(* The turn as apply_turn leaves it: hp_delta and evaluation.hp_delta are *)
(* both overwritten with the effective delta.                             *)
StampedTurn(turn) ==
    LET eff == EffectiveDelta(turn.hp_delta) IN
    [turn EXCEPT !.hp_delta = eff,
                 !.evaluation = IF @ = NoEval THEN @ ELSE [@ EXCEPT !.hp_delta = eff]]

AppliedState_stampsLast(state, turn) ==
    LET eff  == EffectiveDelta(turn.hp_delta)
        hp   == ClampHP(state.player_hp + eff)
        step == state.current_step + 1
        h    == state.history
        seen == IF h = <<>> THEN h ELSE [h EXCEPT ![Len(h)].hp_delta = eff]
    IN [state EXCEPT !.history = Append(seen, StampedTurn(turn)),
                     !.player_hp = hp,
                     !.current_step = step,
                     !.status = EndStatus(@, hp, step, state.max_steps, turn)]

AppliedState_keepsStep(state, turn) ==
    LET eff  == EffectiveDelta(turn.hp_delta)
        hp   == ClampHP(state.player_hp + eff)
    IN [state EXCEPT !.history = Append(@, StampedTurn(turn)),
                     !.player_hp = hp,
                     !.status = EndStatus(@, hp, state.current_step, state.max_steps, turn)]

AppliedState(state, turn) ==
    LET eff  == EffectiveDelta(turn.hp_delta)
        hp   == ClampHP(state.player_hp + eff)
        step == state.current_step + 1
    IN [state EXCEPT !.history = Append(@, StampedTurn(turn)),
                     !.player_hp = hp,
                     !.current_step = step,
                     !.status = EndStatus(@, hp, step, state.max_steps, turn)]

ResetState_hp100(state) ==
    [state EXCEPT !.player_hp = HpCap,
                  !.current_step = 0,
                  !.history = <<>>,
                  !.status = "active",
                  !.actors = [a \in DOMAIN @ |->
                                 [@[a] EXCEPT !.memory = <<>>, !.current_directive = <<>>]]]

ResetState_rebuilt(state) ==
    [GameState(state.session_id, FreshActors, DefaultMaxSteps, state.starting_hp)
        EXCEPT !.history = <<>>]

ResetState(state) ==
    [state EXCEPT !.player_hp = state.starting_hp,
                  !.current_step = 0,
                  !.history = <<>>,
                  !.status = "active",
                  !.actors = [a \in DOMAIN @ |->
                                 [@[a] EXCEPT !.memory = <<>>, !.current_directive = <<>>]]]

----------------------------------------------------------------------------
(* Orchestrator._actor_agents: session id -> (character id -> ActorAgent). *)
(* An ActorAgent object is known by its identity: a new object differs    *)
(* from every object alive when it is built.                              *)

LiveAgents(agents) ==
    UNION {{agents[s][a] : a \in DOMAIN agents[s]} : s \in DOMAIN agents}

NewAgents(agents, state) ==
    LET ids  == DOMAIN state.actors
        live == LiveAgents(agents)
        n    == Cardinality(live) + Cardinality(ids)
    IN CHOOSE f \in [ids -> 0..(n - 1)] :
           /\ \A x \in ids : f[x] \notin live
           /\ \A x \in ids, y \in ids : x # y => f[x] # f[y]

GetOrCreateActorAgents_alwaysNew(agents, sid, state) ==
    DictSet(agents, sid, NewAgents(agents, state))

(* _get_or_create_actor_agents *)
GetOrCreateActorAgents(agents, sid, state) ==
    IF sid \in DOMAIN agents THEN agents
    ELSE DictSet(agents, sid, NewAgents(agents, state))

----------------------------------------------------------------------------
(* Observation of the last SessionManager call and of the process_turn    *)
(* calls in flight                                                        *)

Last(op, sid, ok, pre, turn) ==
    [op |-> op, sid |-> sid, ok |-> ok, pre |-> pre, turn |-> turn]

NoLast == Last("none", "s1", TRUE, NoSession, NoTurn)

IdleCall ==
    [pc |-> "idle", sid |-> "s1", input |-> <<>>, evaluation |-> NoEval,
     error |-> "none", invoked |-> {}, pre |-> NoSession, db0 |-> NoRow,
     agents_hit |-> FALSE, safety |-> "none"]

InFlight(c) == c.pc \in {"await_safety", "await_judge"}

Idle == call.pc = "idle"

(* Direct SessionManager calls on a session are made between its turns:   *)
(* only while no process_turn call on that session is running.            *)
Free(sid) == \A c \in {call, call2} : c.pc = "idle" \/ c.sid # sid

Raised(c, error) == [c EXCEPT !.pc = "done", !.error = error]

(* The callers of the two objects: the session ids they use, the          *)
(* GameStates they create, the turns and player inputs they submit.       *)
Callers(sids, steps, hps, actors, deltas, kinds, inputs, turns) ==
    [sids |-> sids, steps |-> steps, hps |-> hps, actors |-> actors,
     deltas |-> deltas, kinds |-> kinds, inputs |-> inputs, turns |-> turns]

OneSession ==
    Callers(SessionIds, 1..MaxStepsBound, StartHPs, {FreshActors}, Deltas,
            {"none", "normal", "critical"} \X BOOLEAN, PlayerInputs, MaxTurns)

----------------------------------------------------------------------------
NoProbe == [fn |-> "none"]

(* SessionManager.__init__ and Orchestrator.__init__ on an empty database *)
InitCore ==
    /\ cache = EmptyDict
    /\ db = EmptyDict
    /\ actor_agents = EmptyDict
    /\ call = IdleCall
    /\ call2 = IdleCall
    /\ last = NoLast

Init ==
    /\ InitCore
    /\ probe = NoProbe
    /\ mock_sessions = EmptyDict

(* SessionManager.create *)
CreateBy(E) ==
    \E sid \in E.sids, ms \in E.steps, hp \in E.hps, actors \in E.actors :
        LET state == GameState(sid, actors, ms, hp) IN
        /\ Free(sid)
        /\ cache' = DictSet(cache, sid, state)
        /\ db' = Persist(db, sid, state)
        /\ last' = NoLast
        /\ UNCHANGED <<actor_agents, call, call2>>

Create == CreateBy(OneSession) /\ UNCHANGED aux

(* SessionManager.get *)
GetSessionBy(E) ==
    \E sid \in E.sids :
        LET state == Get(sid) IN
        /\ Free(sid)
        /\ cache' = IF state = NoSession THEN cache ELSE DictSet(cache, sid, state)
        /\ UNCHANGED <<db, actor_agents, call, call2, last>>

GetSession == GetSessionBy(OneSession) /\ UNCHANGED aux

(* SessionManager.apply_turn *)
ApplyTurnBy(E) ==
    \E sid \in E.sids, d \in E.deltas, kind \in E.kinds, sc \in TurnScores :
        LET state == Get(sid)
            ev    == kind[1]
            re    == kind[2]
            eval  == IF ev = "none" THEN NoEval ELSE Evaluation(sc, d, ev = "critical")
        IN
        /\ Free(sid)
        /\ IF state = NoSession
           THEN /\ last' = Last("apply_turn", sid, FALSE, NoSession, NoTurn)
                /\ UNCHANGED <<cache, db, actor_agents, call, call2>>
           ELSE LET turn == Turn(state.current_step + 1, <<MenuLabel>>, eval, d, re)
                    new  == AppliedState(state, turn)
                IN /\ state.current_step < E.turns
                   /\ cache' = DictSet(cache, sid, new)
                   /\ db' = Persist(db, sid, new)
                   /\ last' = Last("apply_turn", sid, TRUE, state, turn)
                   /\ UNCHANGED <<actor_agents, call, call2>>

ApplyTurn == ApplyTurnBy(OneSession) /\ UNCHANGED aux

(* SessionManager.reset; the observation keeps the state reset found,    *)
(* without its history.                                                   *)
ResetBy(E) ==
    \E sid \in E.sids :
        LET state == Get(sid) IN
        /\ Free(sid)
        /\ IF state = NoSession
           THEN /\ last' = Last("reset", sid, FALSE, NoSession, NoTurn)
                /\ UNCHANGED <<cache, db, actor_agents, call, call2>>
           ELSE /\ cache' = DictSet(cache, sid, ResetState(state))
                /\ db' = Persist(db, sid, ResetState(state))
                /\ last' = Last("reset", sid, TRUE, [state EXCEPT !.history = <<>>], NoTurn)
                /\ UNCHANGED <<actor_agents, call, call2>>

Reset == ResetBy(OneSession) /\ UNCHANGED aux

(* SessionManager.delete: pop from the cache, DELETE the row.  The         *)
(* observation keeps whether there was a session to delete.               *)
Found(sid) == IF Get(sid) = NoSession THEN NoSession ELSE [session_id |-> sid]

DeleteBy_cacheOnly(E) ==
    \E sid \in E.sids :
        /\ Free(sid)
        /\ cache' = DictPop(cache, sid)
        /\ db' = db
        /\ last' = Last("delete", sid, TRUE, Found(sid), NoTurn)
        /\ UNCHANGED <<actor_agents, call, call2>>

DeleteBy(E) ==
    \E sid \in E.sids :
        /\ Free(sid)
        /\ cache' = DictPop(cache, sid)
        /\ db' = DictPop(db, sid)
        /\ last' = Last("delete", sid, TRUE, Found(sid), NoTurn)
        /\ UNCHANGED <<actor_agents, call, call2>>

Delete == DeleteBy(OneSession) /\ UNCHANGED aux

(* A new process on the same database file: SessionManager.__init__ and   *)
(* Orchestrator.__init__ start with empty dicts; a call in flight is gone. *)
Restart ==
    /\ cache' = EmptyDict
    /\ actor_agents' = EmptyDict
    /\ call' = IdleCall
    /\ call2' = IdleCall
    /\ UNCHANGED <<db, last, aux>>

----------------------------------------------------------------------------
(* Orchestrator.process_turn, one action per segment between awaits; c is *)
(* the record of the call, cn the record after the step.                  *)

(* the labels validate_player_input compares the choice with *)
Offered_none(state) == {}

Offered(state) ==
    IF state.history = <<>> THEN {}
    ELSE LET choices == state.history[Len(state.history)].choices_offered
         IN {Lower(choices[i]) : i \in 1..Len(choices)}

JudgeOutputs ==
    {Evaluation(sc, d, crit) : sc \in JudgeScores, d \in JudgeDeltas, crit \in BOOLEAN}

(* session_manager.get, then validate_player_input up to its first await   *)
(* or its return; on return the actor agents are fetched and the judge is  *)
(* called.                                                                 *)
PT_BeginAt(c, cn, E) ==
    /\ c.pc = "idle"
    /\ \E sid \in E.sids, input \in E.inputs :
        LET state  == Get(sid)
            choice == Strip(input)
            c0     == [IdleCall EXCEPT !.sid = sid, !.input = input, !.pre = state,
                                       !.db0 = IF sid \in DOMAIN db THEN db[sid] ELSE NoRow]
        IN
        /\ state # NoSession => state.current_step < E.turns
        /\ UNCHANGED <<db, last>>
        /\ IF state = NoSession
           THEN /\ cn = Raised(c0, "KeyError")
                /\ UNCHANGED <<cache, actor_agents>>
           ELSE /\ cache' = DictSet(cache, sid, state)
                /\ IF choice = <<>>
                   THEN /\ cn = Raised(c0, "GuardrailViolation")
                        /\ UNCHANGED actor_agents
                   ELSE IF Len(choice) > MaxChoiceLen
                   THEN /\ cn = Raised(c0, "GuardrailViolation")
                        /\ UNCHANGED actor_agents
                   ELSE IF Lower(choice) \in Offered(state)
                   THEN /\ cn = [c0 EXCEPT !.pc = "await_judge", !.invoked = {"judge"},
                                           !.agents_hit = sid \in DOMAIN actor_agents]
                        /\ actor_agents' = GetOrCreateActorAgents(actor_agents, sid, state)
                   ELSE /\ cn = [c0 EXCEPT !.pc = "await_safety", !.invoked = {"safety"}]
                        /\ UNCHANGED actor_agents

PT_Begin == PT_BeginAt(call, call', OneSession) /\ UNCHANGED <<call2, aux>>

(* the safety check answers: only an explicit "not passed" rejects; an     *)
(* error of the capability is logged and the input allowed.                *)
PT_SafetyReturnAt_failsClosed(c, cn) ==
    /\ c.pc = "await_safety"
    /\ \E verdict \in {"passed", "blocked", "error"} :
        IF verdict # "passed"
        THEN /\ cn = Raised([c EXCEPT !.safety = verdict], "GuardrailViolation")
             /\ UNCHANGED actor_agents
        ELSE /\ cn = [c EXCEPT !.pc = "await_judge", !.invoked = @ \cup {"judge"},
                               !.agents_hit = c.sid \in DOMAIN actor_agents,
                               !.safety = verdict]
             /\ actor_agents' = GetOrCreateActorAgents(actor_agents, c.sid, c.pre)
    /\ UNCHANGED <<cache, db, last>>

PT_SafetyReturnAt(c, cn) ==
    /\ c.pc = "await_safety"
    /\ \E verdict \in {"passed", "blocked", "error"} :
        IF verdict = "blocked"
        THEN /\ cn = Raised([c EXCEPT !.safety = verdict], "GuardrailViolation")
             /\ UNCHANGED actor_agents
        ELSE /\ cn = [c EXCEPT !.pc = "await_judge", !.invoked = @ \cup {"judge"},
                               !.agents_hit = c.sid \in DOMAIN actor_agents,
                               !.safety = verdict]
             /\ actor_agents' = GetOrCreateActorAgents(actor_agents, c.sid, c.pre)
    /\ UNCHANGED <<cache, db, last>>

PT_SafetyReturn == PT_SafetyReturnAt(call, call') /\ UNCHANGED <<call2, aux>>

PT_JudgeReturn_commitsFirst ==
    /\ call.pc = "await_judge"
    /\ \/ /\ call' = Raised([call EXCEPT !.safety = "none"], "JudgeError")
          /\ UNCHANGED <<cache, db>>
       \/ \E e \in JudgeOutputs :
            LET state == Get(call.sid)
                turn  == Turn(state.current_step + 1, <<MenuLabel>>, e, e.hp_delta, FALSE)
            IN /\ state # NoSession
               /\ cache' = DictSet(cache, call.sid, AppliedState(state, turn))
               /\ db' = Persist(db, call.sid, AppliedState(state, turn))
               /\ call' = Raised([call EXCEPT !.evaluation = e, !.safety = "none"],
                                "TypeError")
    /\ UNCHANGED <<actor_agents, call2, last, aux>>

(* the judge answers or fails; its answer is handed to                    *)
(* fix_evaluator_output(evaluation, state.scoring), which raises          *)
(* TypeError: the method takes the evaluation only.  The safety verdict   *)
(* of the call is kept on its record up to here.                          *)
PT_JudgeReturnAt_clearsMemory(c, cn) ==
    /\ c.pc = "await_judge"
    /\ \/ cn = Raised([c EXCEPT !.safety = "none"], "JudgeError")
       \/ \E e \in JudgeOutputs :
            cn = Raised([c EXCEPT !.evaluation = e, !.safety = "none"], "TypeError")
    /\ cache' = [sid \in DOMAIN cache |->
                   IF sid # c.sid THEN cache[sid]
                   ELSE [cache[sid] EXCEPT !.actors =
                           [a \in DOMAIN @ |-> [@[a] EXCEPT !.memory = <<>>]]]]
    /\ UNCHANGED <<db, actor_agents, last>>

PT_JudgeReturnAt(c, cn) ==
    /\ c.pc = "await_judge"
    /\ \/ cn = Raised([c EXCEPT !.safety = "none"], "JudgeError")
       \/ \E e \in JudgeOutputs :
            cn = Raised([c EXCEPT !.evaluation = e, !.safety = "none"], "TypeError")
    /\ UNCHANGED <<cache, db, actor_agents, last>>

PT_JudgeReturn == PT_JudgeReturnAt(call, call') /\ UNCHANGED <<call2, aux>>

(* the exception reaches the caller of process_turn *)
PT_RaiseAt(c, cn) ==
    /\ c.pc = "done"
    /\ cn = IdleCall
    /\ UNCHANGED <<cache, db, actor_agents, last>>

PT_Raise == PT_RaiseAt(call, call') /\ UNCHANGED <<call2, aux>>

(* Orchestrator.cleanup_session / reset_actors *)
CleanupSessionBy(E) ==
    \E sid \in E.sids \cap DOMAIN actor_agents :
        /\ Free(sid)
        /\ actor_agents' = DictPop(actor_agents, sid)
        /\ UNCHANGED <<cache, db, call, call2, last>>

CleanupSession == CleanupSessionBy(OneSession) /\ UNCHANGED aux

----------------------------------------------------------------------------
Next ==
    \/ Create
    \/ GetSession
    \/ ApplyTurn
    \/ Reset
    \/ Delete
    \/ Restart
    \/ PT_Begin
    \/ PT_SafetyReturn
    \/ PT_JudgeReturn
    \/ PT_Raise
    \/ CleanupSession

Spec == Init /\ [][Next]_vars

----------------------------------------------------------------------------
(* Two sessions side by side: the callers of one session and those of     *)
(* the other take their steps in any order.                               *)

TwoSessions ==
    Callers({"s1", "s2"}, {2}, {15}, {TalkedActors}, {-10},
            {<<"normal", FALSE>>, <<"normal", TRUE>>, <<"critical", FALSE>>},
            {<<"b", "a">>}, MaxTurnsEach)

Only(sid) == [TwoSessions EXCEPT !.sids = {sid}]

NextSessions ==
    \/ CreateBy(TwoSessions) /\ UNCHANGED aux
    \/ ApplyTurnBy(TwoSessions) /\ UNCHANGED aux
    \/ ResetBy(TwoSessions) /\ UNCHANGED aux
    \/ DeleteBy(TwoSessions) /\ UNCHANGED aux
    \/ PT_BeginAt(call, call', TwoSessions) /\ UNCHANGED <<call2, aux>>
    \/ PT_SafetyReturn
    \/ PT_JudgeReturn
    \/ PT_Raise
    \/ CleanupSessionBy(TwoSessions) /\ UNCHANGED aux

SpecSessions == Init /\ [][NextSessions]_vars

----------------------------------------------------------------------------
(* Two process_turn calls at the same time: process_turn takes no lock    *)
(* and keeps no marker of a turn in progress, so a second call starts     *)
(* whatever the first is doing.                                           *)

PT2_Begin == PT_BeginAt(call2, call2', OneSession) /\ UNCHANGED <<call, aux>>

PT2_SafetyReturn == PT_SafetyReturnAt(call2, call2') /\ UNCHANGED <<call, aux>>

PT2_JudgeReturn == PT_JudgeReturnAt(call2, call2') /\ UNCHANGED <<call, aux>>

PT2_Raise == PT_RaiseAt(call2, call2') /\ UNCHANGED <<call, aux>>

NextOverlap ==
    \/ Create
    \/ PT_Begin
    \/ PT_SafetyReturn
    \/ PT_JudgeReturn
    \/ PT_Raise
    \/ PT2_Begin
    \/ PT2_SafetyReturn
    \/ PT2_JudgeReturn
    \/ PT2_Raise

SpecOverlap == Init /\ [][NextOverlap]_vars

----------------------------------------------------------------------------
(* Properties *)

(* the session of the last SessionManager call, as get() returns it now *)
Cur == Get(last.sid)

AfterApply == last.op = "apply_turn" /\ last.ok

AfterReset == last.op = "reset" /\ last.ok

LastTurnOf(state) == state.history[Len(state.history)]

DbRow(sid) == IF sid \in DOMAIN db THEN db[sid] ELSE NoRow

IsBlank(s) == \A i \in 1..Len(s) : s[i] = " "

(* the data of one session: cache entry, persisted row, cached agents *)
SessionUntouched(sid) ==
    /\ (sid \in DOMAIN cache') = (sid \in DOMAIN cache)
    /\ sid \in DOMAIN cache => cache'[sid] = cache[sid]
    /\ (sid \in DOMAIN db') = (sid \in DOMAIN db)
    /\ sid \in DOMAIN db => db'[sid] = db[sid]
    /\ (sid \in DOMAIN actor_agents') = (sid \in DOMAIN actor_agents)
    /\ sid \in DOMAIN actor_agents => actor_agents'[sid] = actor_agents[sid]

(* a step of an operation called with session id sid *)
StepOn(sid) ==
    \/ CreateBy(Only(sid))
    \/ ApplyTurnBy(Only(sid))
    \/ ResetBy(Only(sid))
    \/ DeleteBy(Only(sid))
    \/ PT_BeginAt(call, call', Only(sid)) /\ UNCHANGED call2
    \/ call.sid = sid /\ (PT_SafetyReturn \/ PT_JudgeReturn \/ PT_Raise)
    \/ CleanupSessionBy(Only(sid))

(* C1: after every apply_turn on a session whose HP was within [0,100],   *)
(* whatever the magnitude or sign of the turn's hp_delta, the session's   *)
(* player_hp is within [0,100].                                           *)
C1_HpWithinBounds ==
    (AfterApply /\ last.pre.player_hp \in 0..100) => Cur.player_hp \in 0..100

C1_Witness ==
    /\ AfterApply
    /\ last.pre.player_hp = 100
    /\ last.turn.hp_delta = -150
    /\ Cur.player_hp = 0

(* C2: apply_turn applies min(0, hp_delta): the appended turn carries that *)
(* delta and player_hp after the call is never greater than before it.    *)
C2_NeverHeals ==
    AfterApply =>
        /\ Cur.player_hp <= last.pre.player_hp
        /\ LastTurnOf(Cur).hp_delta =
               (IF last.turn.hp_delta > 0 THEN 0 ELSE last.turn.hp_delta)

C2_Witness ==
    /\ AfterApply
    /\ last.turn.hp_delta > 0
    /\ last.pre.player_hp = 15
    /\ Cur.player_hp = 15

(* C3: without a reset, a session that is won stays won and a session     *)
(* that is lost stays lost under apply_turn.                              *)
C3_StatusMonotonic ==
    (AfterApply /\ last.pre.status \in {"won", "lost"}) =>
        Cur.status = last.pre.status

(* C4: reset is a transition from lost only: on a session that is won or  *)
(* active it does not produce a fresh active session, the session stays   *)
(* as it was.                                                             *)
C4_ResetOnlyFromLost ==
    (AfterReset /\ last.pre.status # "lost") =>
        /\ Cur.status = last.pre.status
        /\ Cur.current_step = last.pre.current_step
        /\ Cur.player_hp = last.pre.player_hp

(* C5: while a process_turn call runs and when it has failed, the row of  *)
(* its session in the store is the row the call found (or still missing). *)
C5_AbortLeavesStoreUnchanged ==
    call.pc # "idle" => DbRow(call.sid) = call.db0

C5_Witness ==
    /\ call.pc = "done"
    /\ call.error = "TypeError"
    /\ call.invoked = {"safety", "judge"}
    /\ call.db0 # NoRow
    /\ call.evaluation.hp_delta < 0

(* C6: an empty or whitespace-only input to process_turn on an existing   *)
(* session is rejected with a GuardrailViolation, no capability has been  *)
(* invoked, and the session (history, HP, step, status) is as before.     *)
C6_BlankInputRejected ==
    (call.pc # "idle" /\ call.pre # NoSession /\ IsBlank(call.input)) =>
        /\ call.pc = "done"
        /\ call.error = "GuardrailViolation"
        /\ call.invoked = {}
        /\ Get(call.sid) = call.pre

C6_Witness ==
    /\ call.pc = "done"
    /\ call.input = <<" ", " ">>
    /\ call.pre # NoSession
    /\ call.error = "GuardrailViolation"
    /\ Len(call.pre.history) = 2

(* C7: a process_turn call whose evaluation is a critical failure ends as *)
(* a guardrail rejection and leaves the session as it was.                *)
C7_CriticalFailureRejected ==
    (call.pc = "done" /\ call.evaluation # NoEval
        /\ call.evaluation.is_critical_failure) =>
        /\ call.error = "GuardrailViolation"
        /\ Get(call.sid) = call.pre

(* C8: on an active session, when player_hp + min(0, hp_delta) <= 0,      *)
(* apply_turn leaves player_hp = 0 and status = lost.                     *)
C8_HpExhaustedIsLost ==
    (AfterApply /\ last.pre.status = "active"
        /\ last.pre.player_hp
             + (IF last.turn.hp_delta > 0 THEN 0 ELSE last.turn.hp_delta) <= 0) =>
        /\ Cur.player_hp = 0
        /\ Cur.status = "lost"

C8_Witness ==
    /\ AfterApply
    /\ last.pre.status = "active"
    /\ last.pre.player_hp = 15
    /\ last.turn.hp_delta = -20
    /\ ~IsCritical(last.turn)
    /\ Cur.player_hp = 0
    /\ Cur.status = "lost"

(* C9: on an active session at current_step = max_steps - 1, a turn that  *)
(* is not a critical failure, not early-resolved and leaves HP > 0 sets   *)
(* current_step to max_steps and status to won.                           *)
C9_LastStepWins ==
    (AfterApply /\ last.pre.status = "active"
        /\ last.pre.current_step = last.pre.max_steps - 1
        /\ ~IsCritical(last.turn) /\ ~last.turn.resolved_early
        /\ Cur.player_hp > 0) =>
        /\ Cur.current_step = last.pre.max_steps
        /\ Cur.status = "won"

C9_Witness ==
    /\ AfterApply
    /\ last.pre.status = "active"
    /\ last.pre.max_steps = 2
    /\ last.pre.current_step = 1
    /\ ~IsCritical(last.turn) /\ ~last.turn.resolved_early
    /\ Cur.current_step = 2
    /\ Cur.status = "won"

(* C10: on an active session apply_turn decides the status in this order: *)
(* HP <= 0 gives lost, else a critical failure gives lost, else the step  *)
(* count reaching max_steps or an early-resolved turn gives won, else the *)
(* session stays active.                                                  *)
C10_EndConditionPriority ==
    (AfterApply /\ last.pre.status = "active") =>
        Cur.status =
            (IF Cur.player_hp <= 0 THEN "lost"
             ELSE IF IsCritical(last.turn) THEN "lost"
             ELSE IF Cur.current_step >= Cur.max_steps \/ last.turn.resolved_early
                  THEN "won"
             ELSE "active")

C10_Witness ==
    /\ AfterApply
    /\ last.pre.status = "active"
    /\ last.pre.player_hp > 0
    /\ Cur.player_hp = 0
    /\ Cur.current_step >= Cur.max_steps
    /\ last.turn.resolved_early
    /\ ~IsCritical(last.turn)
    /\ Cur.status = "lost"

C12_ResetKeepsIdentity ==
    AfterReset =>
        /\ Cur.session_id = last.sid
        /\ Cur.session_id = last.pre.session_id
        /\ Cur.player_profile = last.pre.player_profile
        /\ Cur.module_id = last.pre.module_id
        /\ Cur.scenario_id = last.pre.scenario_id
        /\ Cur.max_steps = last.pre.max_steps
        /\ Cur.starting_hp = last.pre.starting_hp
        /\ Cur.scoring = last.pre.scoring
        /\ DOMAIN Cur.actors = DOMAIN last.pre.actors

C12_Witness ==
    /\ AfterReset
    /\ last.sid = "s2"
    /\ last.pre.status = "won"
    /\ last.pre.current_step = 1
    /\ Cur.current_step = 0
    /\ Cur.max_steps = 2
    /\ Cur.player_profile = PlayerProfile("s2")

(* C13: a session created with its entry turn and current_step 0, and     *)
(* changed since by committed turns only (its history still starts with   *)
(* the entry turn: reset empties the history and every later turn has a   *)
(* step of 1 or more), has current_step = len(history) - 1.               *)
C13_StepCountsHistory ==
    \A sid \in SessionIds :
        LET state == Get(sid) IN
        (state # NoSession /\ state.history # <<>> /\ state.history[1] = EntryTurn) =>
            state.current_step = Len(state.history) - 1

C13_Witness ==
    /\ AfterApply
    /\ Cur.history[1] = EntryTurn
    /\ Len(Cur.history) = 3
    /\ Cur.current_step = 2
    /\ last.pre.current_step = 1

(* C14: at most one process_turn call is in flight for a session id: two  *)
(* calls on the same session are never both between their read of the    *)
(* session and their end.                                                 *)
C14_SingleTurnInFlight ==
    ~(InFlight(call) /\ InFlight(call2) /\ call.sid = call2.sid)

(* C15: a step of create, apply_turn, reset, delete, process_turn or the  *)
(* agent cleanup on one session leaves the cache entry, the persisted row *)
(* and the cached character agents of every other session as they were.  *)
C15_SessionsIndependent ==
    [][\A a \in TwoSessions.sids :
          StepOn(a) => \A b \in TwoSessions.sids \ {a} : SessionUntouched(b)]_vars

C15_Witness ==
    /\ AfterReset
    /\ last.sid = "s1"
    /\ "s2" \in DOMAIN cache
    /\ cache["s2"].status = "lost"
    /\ Len(cache["s2"].history) = 2
    /\ "s2" \in DOMAIN actor_agents
    /\ "s1" \notin DOMAIN actor_agents
    /\ last.pre.status = "won"

(* C16: the turn apply_turn commits keeps both values: its evaluation     *)
(* still carries the hp_delta the turn was built with, its own hp_delta   *)
(* is min(0, hp_delta).                                                   *)
C16_EvaluationKeepsJudgeDelta ==
    (AfterApply /\ last.turn.evaluation # NoEval) =>
        /\ LastTurnOf(Cur).evaluation.hp_delta = last.turn.evaluation.hp_delta
        /\ LastTurnOf(Cur).hp_delta =
               (IF last.turn.hp_delta > 0 THEN 0 ELSE last.turn.hp_delta)

C19_AgentsReused ==
    [][\A sid \in SessionIds :
          /\ (sid \in DOMAIN actor_agents /\ sid \in DOMAIN actor_agents') =>
                actor_agents'[sid] = actor_agents[sid]
          /\ (sid \notin DOMAIN actor_agents /\ sid \in DOMAIN actor_agents') =>
                (call.pc # "await_judge" /\ call'.pc = "await_judge" /\ call'.sid = sid)]_vars

C19_Witness ==
    /\ call.pc = "await_judge"
    /\ call.agents_hit
    /\ call.sid \in DOMAIN actor_agents
    /\ call.pre.current_step = 1
    /\ call.pre.status = "active"

----------------------------------------------------------------------------
(* _compute_drift (core/orchestrator.py) and the PlayerDrift it returns   *)
(* (agents/scenario_agent.py).  recent_avg_score is kept in tenths:       *)
(* round(x, 1) of Python is the nearest tenth, and a mean of at most      *)
(* three integers is never half way between two tenths.                   *)

MaxHistory == 4
DriftWindow == 3
PoorScore == 50
BadScore == 20

DriftEvaluations ==
    { Evaluation(10, -15, FALSE), Evaluation(15, 0, FALSE),
      Evaluation(19, 0, FALSE),   Evaluation(20, 0, FALSE),
      Evaluation(49, 0, FALSE),   Evaluation(50, -15, FALSE),
      Evaluation(50, -10, FALSE), Evaluation(95, 0, FALSE) }

(* a history: the turns played, each with its evaluation, alone or       *)
(* between an entry turn and a turn still waiting for its choice          *)
ScoredTurns(es) ==
    [i \in 1..Len(es) |-> Turn(i, <<MenuLabel>>, es[i], es[i].hp_delta, FALSE)]

DriftHistories ==
    { open \o ScoredTurns(es) \o open :
        open \in {<<>>, <<EntryTurn>>},
        es \in UNION { [1..n -> DriftEvaluations] : n \in 0..MaxHistory } }

PlayerDrift(level, consecutive_poor, consecutive_bad, recent_avg_score, hp_trend) ==
    [level |-> level, consecutive_poor |-> consecutive_poor,
     consecutive_bad |-> consecutive_bad,
     recent_avg_score |-> recent_avg_score, hp_trend |-> hp_trend]

(* s[-n:] *)
LastN(s, n) == SubSeq(s, Max(1, Len(s) - n + 1), Len(s))

RECURSIVE SumSeq(_)
SumSeq(s) == IF s = <<>> THEN 0 ELSE s[1] + SumSeq(Tail(s))

(* round(total / n, 1), in tenths *)
RoundTenths(total, n) == (20 * total + n) \div (2 * n)

(* for t in reversed(scored): count while score < limit, break otherwise *)
RECURSIVE TrailingRun(_, _)
TrailingRun_countsAll(scored, limit) ==
    Cardinality({i \in 1..Len(scored) : scored[i].evaluation.score < limit})

TrailingRun(scored, limit) ==
    IF scored = <<>> THEN 0
    ELSE IF scored[Len(scored)].evaluation.score < limit
         THEN 1 + TrailingRun(SubSeq(scored, 1, Len(scored) - 1), limit)
         ELSE 0

(* the if / elif chain; recent_avg < k is total < k * n *)
DriftLevel_strictTrend(consecutive_poor, consecutive_bad, total, n, hp_trend) ==
    IF consecutive_bad >= 2 THEN "critical"
    ELSE IF consecutive_poor >= 3 \/ total < 30 * n \/ hp_trend < -30
         THEN "struggling"
    ELSE IF consecutive_poor >= 2 \/ total < 50 * n THEN "passive"
    ELSE "on_track"

DriftLevel(consecutive_poor, consecutive_bad, total, n, hp_trend) ==
    IF consecutive_bad >= 2 THEN "critical"
    ELSE IF consecutive_poor >= 3 \/ total < 30 * n \/ hp_trend <= -30
         THEN "struggling"
    ELSE IF consecutive_poor >= 2 \/ total < 50 * n THEN "passive"
    ELSE "on_track"

ComputeDrift(history) ==
    LET scored == SelectSeq(history, LAMBDA t : t.evaluation # NoEval)
        recent == LastN(scored, DriftWindow)
        total == SumSeq([i \in 1..Len(recent) |-> recent[i].evaluation.score])
        hp_trend == SumSeq([i \in 1..Len(recent) |-> recent[i].evaluation.hp_delta])
        consecutive_poor == TrailingRun(scored, PoorScore)
        consecutive_bad == TrailingRun(scored, BadScore)
    IN  IF scored = <<>>
        THEN PlayerDrift("on_track", 0, 0, 1000, 0)
        ELSE PlayerDrift(
                 DriftLevel(consecutive_poor, consecutive_bad, total,
                            Len(recent), hp_trend),
                 consecutive_poor, consecutive_bad,
                 RoundTenths(total, Len(recent)), hp_trend)

(* the function on its own: a history is given, then _compute_drift runs  *)
InitDrift ==
    /\ InitCore
    /\ mock_sessions = EmptyDict
    /\ probe \in {[fn |-> "history", history |-> h] : h \in DriftHistories}

ComputeDriftCall ==
    /\ probe.fn = "history"
    /\ probe' = [fn |-> "_compute_drift", history |-> probe.history,
                 out |-> ComputeDrift(probe.history)]
    /\ UNCHANGED <<cache, db, actor_agents, call, call2, last, mock_sessions>>

NextDrift == ComputeDriftCall

SpecDrift == InitDrift /\ [][NextDrift]_vars

(* the evaluated turns of the history _compute_drift was given, and the   *)
(* k-th of them counted from the end (k = 0 is the most recent)           *)
DriftDone == probe.fn = "_compute_drift"

Evaluated ==
    LET h == probe.history
        idx == {i \in 1..Len(h) : h[i].evaluation # NoEval}
        Rank(i) == Cardinality({j \in idx : j <= i})
    IN  [k \in 1..Cardinality(idx) |-> h[CHOOSE i \in idx : Rank(i) = k].evaluation]

FromEnd(k) == Evaluated[Len(Evaluated) - k]

WindowSize == IF Len(Evaluated) < 3 THEN Len(Evaluated) ELSE 3

WindowScore == 
    (IF WindowSize >= 1 THEN FromEnd(0).score ELSE 0)
  + (IF WindowSize >= 2 THEN FromEnd(1).score ELSE 0)
  + (IF WindowSize >= 3 THEN FromEnd(2).score ELSE 0)

WindowTrend ==
    (IF WindowSize >= 1 THEN FromEnd(0).hp_delta ELSE 0)
  + (IF WindowSize >= 2 THEN FromEnd(1).hp_delta ELSE 0)
  + (IF WindowSize >= 3 THEN FromEnd(2).hp_delta ELSE 0)

(* n is the length of the longest suffix of the evaluated turns whose     *)
(* scores are all below limit                                             *)
LongestSuffixBelow(n, limit) ==
    /\ n \in 0..Len(Evaluated)
    /\ \A k \in 0..(n - 1) : FromEnd(k).score < limit
    /\ n < Len(Evaluated) => FromEnd(n).score >= limit

(* C21: _compute_drift returns the specified classification.  Without an  *)
(* evaluated turn: on_track, no streak, average 100, trend 0.  Otherwise  *)
(* the average (to the nearest tenth) and the trend are those of the last *)
(* at most three evaluated turns, and the level is critical if            *)
(* consecutive_bad >= 2, else struggling if consecutive_poor >= 3 or the  *)
(* average is below 30 or the trend is at most -30, else passive if       *)
(* consecutive_poor >= 2 or the average is below 50, else on_track; the   *)
(* level is critical exactly when the last two evaluated turns both score *)
(* below 20.                                                              *)
C21_DriftClassification ==
    DriftDone =>
        LET out == probe.out
            n == WindowSize
        IN  IF Len(Evaluated) = 0
            THEN out = PlayerDrift("on_track", 0, 0, 1000, 0)
            ELSE /\ out.hp_trend = WindowTrend
                 /\ 2 * (out.recent_avg_score * n - 10 * WindowScore) <= n
                 /\ 2 * (10 * WindowScore - out.recent_avg_score * n) <= n
                 /\ out.level =
                      (CASE out.consecutive_bad >= 2 -> "critical"
                         [] out.consecutive_bad < 2
                              /\ (\/ out.consecutive_poor >= 3
                                  \/ WindowScore < 30 * n
                                  \/ WindowTrend <= -30) -> "struggling"
                         [] out.consecutive_bad < 2
                              /\ ~(\/ out.consecutive_poor >= 3
                                   \/ WindowScore < 30 * n
                                   \/ WindowTrend <= -30)
                              /\ (\/ out.consecutive_poor >= 2
                                  \/ WindowScore < 50 * n) -> "passive"
                         [] OTHER -> "on_track")
                 /\ (out.level = "critical") <=>
                      (/\ Len(Evaluated) >= 2
                       /\ FromEnd(0).score < 20
                       /\ FromEnd(1).score < 20)

(* a history of four evaluated turns whose last three lose exactly 30 HP  *)
(* with no streak and an average of at least 50: struggling by the trend  *)
(* alone, the fourth turn back left out of the window                     *)
C21_Witness ==
    /\ DriftDone
    /\ Len(Evaluated) = 4
    /\ FromEnd(3).hp_delta < 0
    /\ probe.out.hp_trend = -30
    /\ probe.out.consecutive_poor = 0
    /\ probe.out.recent_avg_score >= 500
    /\ probe.out.level = "struggling"

(* C22: consecutive_poor and consecutive_bad are the lengths of the       *)
(* longest suffix of the evaluated turns scoring below 50 and below 20:   *)
(* the count starts at the most recent evaluated turn and stops at the    *)
(* first turn that breaks the condition.                                  *)
C22_StreaksAreSuffixes ==
    DriftDone =>
        /\ LongestSuffixBelow(probe.out.consecutive_poor, 50)
        /\ LongestSuffixBelow(probe.out.consecutive_bad, 20)

(* scores 10, 15, 95: two bad turns behind a good one count for nothing   *)
C22_Witness ==
    /\ DriftDone
    /\ Len(Evaluated) = 3
    /\ FromEnd(2).score = 10
    /\ FromEnd(1).score = 15
    /\ FromEnd(0).score = 95
    /\ probe.out.consecutive_bad = 0
    /\ probe.out.consecutive_poor = 0

----------------------------------------------------------------------------
(* GuardrailAgent's outbound checks (agents/guardrail_agent.py):          *)
(* validate_scenario_output and fix_evaluator_output, each on its own.    *)

MaxChoices == 4
MinSummaryLen == 20
MinReasoningLen == 5
FixedDeltaMin == -40
FixedDeltaMax == 10

Valences == {"positive", "neutral", "negative", "hostile"}
RequiredValences == {"positive", "neutral", "negative"}

Choice(label, valence) == [label |-> label, valence |-> valence]

(* acting orders over a known and an unknown character id *)
TurnOrders == {<<>>, <<"a1">>, <<"ghost">>, <<"a1", "ghost">>, <<"a1", "a1">>}

(* directives dicts *)
Directives ==
    { [a \in ks |-> <<"d">>] : ks \in {{}, {"a1"}, {"a1", "ghost"}} }

Summaries ==
    { <<>>,
      Repeat(" ", MinSummaryLen),
      Repeat("a", MinSummaryLen - 1),
      <<" ">> \o Repeat("a", MinSummaryLen - 1) \o <<" ">>,
      <<" ">> \o Repeat("a", MinSummaryLen) }

ScenarioOutput(turn_order, directives, situation_summary, next_choices) ==
    [turn_order |-> turn_order, directives |-> directives,
     situation_summary |-> situation_summary, next_choices |-> next_choices,
     branch_taken |-> "branch", early_resolution |-> FALSE]

ScenarioOutputs ==
    { ScenarioOutput(o, d, s, [i \in 1..n |-> Choice("label", vs[i])]) :
        o \in TurnOrders, d \in Directives, s \in Summaries,
        n \in 2..MaxChoices, vs \in [1..MaxChoices -> Valences] }

(* returns "ok", or the ValueError raised by the first check that fails *)
ValidateScenarioOutput_atLeastThree(output, valid_actor_ids) ==
    IF \E i \in 1..Len(output.turn_order) :
           output.turn_order[i] \notin valid_actor_ids
    THEN "ValueError: unknown actor_ids"
    ELSE IF \E i \in 1..Len(output.turn_order) :
           output.turn_order[i] \notin DOMAIN output.directives
    THEN "ValueError: missing directives"
    ELSE IF Len(output.next_choices) < 3
    THEN "ValueError: not 3 next_choices"
    ELSE IF {output.next_choices[i].valence : i \in 1..Len(output.next_choices)}
               # RequiredValences
    THEN "ValueError: valences"
    ELSE IF \/ output.situation_summary = <<>>
            \/ Len(Strip(output.situation_summary)) < MinSummaryLen
    THEN "ValueError: summary"
    ELSE "ok"

ValidateScenarioOutput(output, valid_actor_ids) ==
    IF \E i \in 1..Len(output.turn_order) :
           output.turn_order[i] \notin valid_actor_ids
    THEN "ValueError: unknown actor_ids"
    ELSE IF \E i \in 1..Len(output.turn_order) :
           output.turn_order[i] \notin DOMAIN output.directives
    THEN "ValueError: missing directives"
    ELSE IF Len(output.next_choices) # 3
    THEN "ValueError: not 3 next_choices"
    ELSE IF {output.next_choices[i].valence : i \in 1..Len(output.next_choices)}
               # RequiredValences
    THEN "ValueError: valences"
    ELSE IF \/ output.situation_summary = <<>>
            \/ Len(Strip(output.situation_summary)) < MinSummaryLen
    THEN "ValueError: summary"
    ELSE "ok"

(* an Evaluation with its reasoning, as an object: model_copy builds a    *)
(* new object, returning the argument keeps the old one                   *)
JudgeEvaluation(score, hp_delta, reasoning, crit) ==
    [score |-> score, hp_delta |-> hp_delta, reasoning |-> reasoning,
     is_critical_failure |-> crit]

Object(id, value) == [id |-> id, value |-> value]

Reasonings ==
    { <<>>, Repeat(" ", MinReasoningLen), Repeat("r", MinReasoningLen - 1),
      <<" ">> \o Repeat("r", MinReasoningLen - 1) \o <<" ">>,
      Repeat("r", MinReasoningLen) }

FallbackReasoning == <<"N", "o", " ", "r", "e", "a", "s", "o", "n", "i", "n", "g",
                       " ", "p", "r", "o", "v", "i", "d", "e", "d", ".">>

ProbeScores == {-5, 0, 50, 100, 130}
ProbeDeltas == {-50, -40, -30, -25, 0, 10, 15, 20}

(* per-scenario scoring configurations: the defaults, and one whose bad   *)
(* and great bands are overridden                                         *)
ScoringConfigs ==
    { ScoringConfig,
      [ScoringConfig EXCEPT !.bad = [min |-> -40, max |-> -15],
                            !.great = [min |-> 5, max |-> 10]] }

AbsoluteMin(scoring) == scoring.bad.min
AbsoluteMax(scoring) == scoring.great.max

JudgeEvaluations ==
    { JudgeEvaluation(s, d, r, c) :
        s \in ProbeScores, d \in ProbeDeltas, r \in Reasonings, c \in BOOLEAN }

(* the dict of repairs fix_evaluator_output collects *)
EvaluationUpdates(evaluation) ==
    { f \in {"score", "hp_delta", "reasoning"} :
        \/ f = "score" /\ ~(0 <= evaluation.score /\ evaluation.score <= 100)
        \/ f = "hp_delta" /\ ~(FixedDeltaMin <= evaluation.hp_delta
                                /\ evaluation.hp_delta <= FixedDeltaMax)
        \/ f = "reasoning" /\ (\/ evaluation.reasoning = <<>>
                               \/ Len(Strip(evaluation.reasoning)) < MinReasoningLen) }

(* fix_evaluator_output(evaluation) on the object obj; fresh is the       *)
(* identity a copy would get                                              *)
FixEvaluatorOutput(obj, fresh) ==
    LET e == obj.value
        updates == EvaluationUpdates(e)
    IN  IF updates = {} THEN obj
        ELSE Object(fresh,
               JudgeEvaluation(
                 IF "score" \in updates THEN Max(0, Min(100, e.score)) ELSE e.score,
                 IF "hp_delta" \in updates
                 THEN Max(FixedDeltaMin, Min(FixedDeltaMax, e.hp_delta))
                 ELSE e.hp_delta,
                 IF "reasoning" \in updates THEN FallbackReasoning ELSE e.reasoning,
                 e.is_critical_failure))

InitGuardrail ==
    /\ InitCore
    /\ mock_sessions = EmptyDict
    /\ \/ probe \in {[fn |-> "scenario_output", output |-> o,
                      valid_actor_ids |-> ActorIds] : o \in ScenarioOutputs}
       \/ probe \in {[fn |-> "evaluation", evaluation |-> Object(1, e),
                      scoring |-> sc] :
                        e \in JudgeEvaluations, sc \in ScoringConfigs}

ValidateScenarioOutputCall ==
    /\ probe.fn = "scenario_output"
    /\ probe' = [fn |-> "validate_scenario_output", output |-> probe.output,
                 out |-> ValidateScenarioOutput(probe.output, probe.valid_actor_ids)]
    /\ UNCHANGED <<cache, db, actor_agents, call, call2, last, mock_sessions>>

(* fix_evaluator_output on the judge's evaluation, then on its own result *)
FixEvaluatorOutputCall ==
    /\ probe.fn = "evaluation"
    /\ LET once == FixEvaluatorOutput(probe.evaluation, 2)
       IN  probe' = [fn |-> "fix_evaluator_output",
                     evaluation |-> probe.evaluation,
                     scoring |-> probe.scoring,
                     out |-> once,
                     again |-> FixEvaluatorOutput(once, 3)]
    /\ UNCHANGED <<cache, db, actor_agents, call, call2, last, mock_sessions>>

NextGuardrail ==
    \/ ValidateScenarioOutputCall
    \/ FixEvaluatorOutputCall

SpecGuardrail == InitGuardrail /\ [][NextGuardrail]_vars

Validated == probe.fn = "validate_scenario_output"
Fixed == probe.fn = "fix_evaluator_output"

(* the length of s between its first and its last non-blank character *)
TrimmedLen(s) ==
    LET idx == {i \in 1..Len(s) : ~IsSpace(s[i])}
    IN  IF idx = {} THEN 0
        ELSE (CHOOSE i \in idx : \A j \in idx : j <= i)
               - (CHOOSE i \in idx : \A j \in idx : j >= i) + 1

ChoiceValences(output) ==
    [v \in Valences |->
        Cardinality({i \in 1..Len(output.next_choices) :
                        output.next_choices[i].valence = v})]

(* C23: validate_scenario_output accepts an output exactly when every id  *)
(* of the acting order is a known character and has a directive, there    *)
(* are exactly three choices, one of each of positive, neutral and        *)
(* negative, and the trimmed summary has the minimum length; two or four  *)
(* choices, and a valence that appears twice, are rejected.               *)
C23_ScenarioOutputAccepted ==
    Validated =>
        LET o == probe.output
            order == {o.turn_order[i] : i \in 1..Len(o.turn_order)}
        IN  /\ (probe.out = "ok") <=>
                  /\ order \subseteq ActorIds
                  /\ order \subseteq DOMAIN o.directives
                  /\ Len(o.next_choices) = 3
                  /\ \A v \in RequiredValences : ChoiceValences(o)[v] = 1
                  /\ TrimmedLen(o.situation_summary) >= MinSummaryLen
            /\ Len(o.next_choices) \in {2, 4} => probe.out # "ok"
            /\ (\E v \in Valences : ChoiceValences(o)[v] >= 2) => probe.out # "ok"

(* accepted: one character acting with its directive, three choices of    *)
(* the three valences, a padded summary of exactly the minimum length     *)
C23_Witness ==
    /\ Validated
    /\ probe.out = "ok"
    /\ probe.output.turn_order = <<"a1", "a1">>
    /\ Len(probe.output.situation_summary) > MinSummaryLen
    /\ TrimmedLen(probe.output.situation_summary) = MinSummaryLen

(* an evaluation that needs no repair: score and hp_delta within the      *)
(* session's bounds, reasoning of at least the minimum trimmed length     *)
ValidEvaluation(e, scoring) ==
    /\ e.score \in 0..100
    /\ e.hp_delta \in AbsoluteMin(scoring)..AbsoluteMax(scoring)
    /\ TrimmedLen(e.reasoning) >= MinReasoningLen

(* C24: fix_evaluator_output returns a valid evaluation as it got it, the *)
(* same object with the same content, and repairing a repaired evaluation *)
(* changes nothing: fix(fix(e)) = fix(e).                                 *)
C24_FixIsNoOpAndIdempotent ==
    Fixed =>
        /\ ValidEvaluation(probe.evaluation.value, probe.scoring) =>
               /\ probe.out.id = probe.evaluation.id
               /\ probe.out.value = probe.evaluation.value
        /\ probe.again.value = probe.out.value

(* C25: the evaluation fix_evaluator_output returns has its score in      *)
(* 0..100 and its hp_delta within the absolute band of the session's      *)
(* scoring configuration, from bad.min to great.max.                      *)
C25_RepairedWithinConfiguredBand ==
    Fixed =>
        /\ probe.out.value.score \in 0..100
        /\ probe.out.value.hp_delta >= AbsoluteMin(probe.scoring)
        /\ probe.out.value.hp_delta <= AbsoluteMax(probe.scoring)

----------------------------------------------------------------------------
(* the defects of a judge answer that fix_evaluator_output is there to    *)
(* repair: a score outside 0..100, an hp_delta outside the session's      *)
(* absolute band                                                          *)
RepairableDefect(e, scoring) ==
    \/ e.score \notin 0..100
    \/ e.hp_delta \notin AbsoluteMin(scoring)..AbsoluteMax(scoring)

(* C26: a judge answer with a repairable defect that is not a critical    *)
(* failure does not end the process_turn call: no error is raised at the  *)
(* evaluation stage, the call goes on with the repaired evaluation.       *)
C26_RepairableDefectDoesNotAbort ==
    (/\ call.evaluation # NoEval
     /\ ~call.evaluation.is_critical_failure
     /\ RepairableDefect(call.evaluation, call.pre.scoring)) =>
        call.error = "none"

(* C27: the safety screening fails open.  When the safety check itself    *)
(* fails on a non-blank choice of at most 600 characters the call is not  *)
(* rejected: it goes on to the judge.  A call that ends at the safety     *)
(* check ends there with a GuardrailViolation on a "not passed" verdict   *)
(* only.                                                                  *)
C27_SafetyFailsOpen ==
    /\ call.safety = "error" =>
          /\ ~IsBlank(call.input)
          /\ Len(Strip(call.input)) <= MaxChoiceLen
          /\ call.pc = "await_judge"
          /\ "judge" \in call.invoked
          /\ call.error = "none"
    /\ (call.pc = "done" /\ call.invoked = {"safety"}) =>
          /\ call.safety = "blocked"
          /\ call.error = "GuardrailViolation"

(* a free-text choice of exactly 600 characters waits for the judge after *)
(* the safety check failed                                                *)
C27_Witness ==
    /\ call.pc = "await_judge"
    /\ call.safety = "error"
    /\ call.invoked = {"safety", "judge"}
    /\ Len(Strip(call.input)) = MaxChoiceLen

(* C29: delete is idempotent.  After delete(id) the session is in neither *)
(* the cache nor the store and get(id) finds nothing (KeyError); a delete *)
(* of an id that is in neither, deleted before or never created, changes  *)
(* nothing.                                                               *)
C29_DeleteIdempotent ==
    /\ [](last.op = "delete" =>
            /\ last.sid \notin DOMAIN cache
            /\ last.sid \notin DOMAIN db
            /\ Get(last.sid) = NoSession)
    /\ [][(last' # last /\ last'.op = "delete"
             /\ last'.sid \notin DOMAIN cache /\ last'.sid \notin DOMAIN db) =>
               /\ cache' = cache
               /\ db' = db
               /\ actor_agents' = actor_agents
               /\ call' = call]_vars

(* a delete that found nothing to delete, on a session that had been      *)
(* played: its agents are still in the orchestrator                       *)
C29_Witness ==
    /\ last.op = "delete"
    /\ last.pre = NoSession
    /\ last.sid \in DOMAIN actor_agents
    /\ last.sid \notin DOMAIN cache
    /\ last.sid \notin DOMAIN db

----------------------------------------------------------------------------
(* The mock API routes (api/routes/session.py, api/routes/turn.py): the   *)
(* module-level _sessions dict and the handlers that work on it.  probe   *)
(* holds the handler's response.                                          *)

MockMaxSteps == 6
MockStartHp == 100

MockIds == {"m1", "m2"}
MockChoices == {"", "speak up", "stay quiet"}

(* _build_mock_turns: score, hp_delta and is_critical_failure of each     *)
(* scripted turn                                                          *)
BuildMockTurns ==
    << Evaluation(60, -10, FALSE), Evaluation(55, -10, FALSE),
       Evaluation(40, -15, FALSE), Evaluation(70, -5, FALSE),
       Evaluation(80, 0, FALSE) >>

MockTurn(step, player_choice, evaluation, hp_delta) ==
    [step |-> step, player_choice |-> player_choice,
     evaluation |-> evaluation, hp_delta |-> hp_delta]

MockEntryTurn == MockTurn(0, "", NoEval, 0)

MakeFreshGameState(session_id) ==
    [session_id |-> session_id, module_id |-> "posh",
     scenario_id |-> "posh_bystander_001", current_step |-> 0,
     max_steps |-> MockMaxSteps, player_hp |-> MockStartHp,
     history |-> <<MockEntryTurn>>, status |-> "active"]

Response(fn, sid, code) == [fn |-> fn, sid |-> sid, status_code |-> code]

(* POST /session/start: a new uuid4 session id *)
StartSession ==
    \E sid \in MockIds \ DOMAIN mock_sessions :
        /\ mock_sessions' = DictSet(mock_sessions, sid, MakeFreshGameState(sid))
        /\ probe' = Response("start_session", sid, 200)
        /\ UNCHANGED <<cache, db, actor_agents, call, call2, last>>

(* the session end condition of submit_turn *)
MockEndStatus(status, critical, new_hp, new_step, max_steps) ==
    IF critical \/ new_hp <= 0 THEN "lost"
    ELSE IF new_step >= max_steps THEN "won"
    ELSE status

(* POST /turn/submit *)
SubmitTurn ==
    \E sid \in MockIds, player_choice \in MockChoices :
        LET found == sid \in DOMAIN mock_sessions
            state == mock_sessions[sid]
        IN
        /\ UNCHANGED <<cache, db, actor_agents, call, call2, last>>
        /\ IF player_choice = ""
           THEN /\ probe' = Response("submit_turn", sid, 422)
                /\ UNCHANGED mock_sessions
           ELSE IF ~found
           THEN /\ probe' = Response("submit_turn", sid, 404)
                /\ UNCHANGED mock_sessions
           ELSE IF state.status # "active"
           THEN /\ probe' = Response("submit_turn", sid, 400)
                /\ UNCHANGED mock_sessions
           ELSE IF state.current_step >= Len(BuildMockTurns)
           THEN /\ probe' = Response("submit_turn", sid, 400)
                /\ UNCHANGED mock_sessions
           ELSE LET script   == BuildMockTurns[state.current_step + 1]
                    new_step == state.current_step + 1
                    new_hp   == Max(0, state.player_hp + script.hp_delta)
                    n        == Len(state.history)
                    stamped  == IF n = 0 THEN state.history
                                ELSE [state.history EXCEPT
                                        ![n] = MockTurn(@.step, player_choice,
                                                        script, script.hp_delta)]
                IN /\ mock_sessions' =
                        DictSet(mock_sessions, sid,
                          [state EXCEPT
                             !.history = Append(stamped, MockTurn(new_step, "", NoEval, 0)),
                             !.player_hp = new_hp,
                             !.current_step = new_step,
                             !.status = MockEndStatus(state.status,
                                           script.is_critical_failure, new_hp,
                                           new_step, state.max_steps)])
                   /\ probe' = Response("submit_turn", sid, 200)

(* POST /session/{id}/retry *)
RetrySession ==
    \E sid \in MockIds :
        /\ UNCHANGED <<cache, db, actor_agents, call, call2, last>>
        /\ IF sid \notin DOMAIN mock_sessions
           THEN /\ probe' = Response("retry_session", sid, 404)
                /\ UNCHANGED mock_sessions
           ELSE IF mock_sessions[sid].status # "lost"
           THEN /\ probe' = Response("retry_session", sid, 400)
                /\ UNCHANGED mock_sessions
           ELSE /\ mock_sessions' = DictSet(mock_sessions, sid, MakeFreshGameState(sid))
                /\ probe' = Response("retry_session", sid, 200)

NextMock ==
    \/ StartSession
    \/ SubmitTurn
    \/ RetrySession

SpecMock == Init /\ [][NextMock]_vars

(* C30: in the mock routes a session whose step has reached max_steps - 1 *)
(* (the final scripted turn has been applied) is not active any more: it  *)
(* is won when player_hp > 0 and lost when player_hp <= 0.                *)
C30_MockSessionEnds ==
    \A sid \in DOMAIN mock_sessions :
        LET state == mock_sessions[sid] IN
        state.current_step >= state.max_steps - 1 =>
            state.status = (IF state.player_hp > 0 THEN "won" ELSE "lost")

----------------------------------------------------------------------------
(* the choice of the call, trimmed, is one of the labels the last turn of *)
(* the session offered, letter case apart                                 *)
MatchesOfferedLabel(c) ==
    /\ c.pre.history # <<>>
    /\ LET labels == c.pre.history[Len(c.pre.history)].choices_offered
       IN  \E i \in 1..Len(labels) : Lower(labels[i]) = Lower(Strip(c.input))

(* C31: a choice that matches an offered label passes validation without  *)
(* the safety check being invoked; every other non-blank choice of at     *)
(* most 600 characters has the safety check invoked, once: the check is   *)
(* awaited as the first step of the call and not again.                   *)
C31_SafetyCheckOnlyForFreeText ==
    /\ [](/\ call.pc # "idle"
          /\ call.pre # NoSession
          /\ ~IsBlank(call.input)
          /\ Len(Strip(call.input)) <= MaxChoiceLen
          => IF MatchesOfferedLabel(call)
             THEN "safety" \notin call.invoked /\ "judge" \in call.invoked
             ELSE "safety" \in call.invoked)
    /\ [][(call'.pc = "await_safety" /\ call' # call) => call.pc = "idle"]_vars

(* the offered label typed in another case and with blanks around it      *)
(* reached the judge without a safety check                               *)
C31_Witness ==
    /\ call.pc = "await_judge"
    /\ call.invoked = {"judge"}
    /\ MatchesOfferedLabel(call)
    /\ Strip(call.input) # call.input
    /\ Strip(call.input) # MenuLabel

(* C34: apply_turn only appends: the history the call found is a prefix   *)
(* of the history it leaves, which is one turn longer.                    *)
C34_HistoryAppendOnly ==
    AfterApply =>
        /\ Len(Cur.history) = Len(last.pre.history) + 1
        /\ \A i \in 1..Len(last.pre.history) :
               Cur.history[i] = last.pre.history[i]

(* a second turn appended behind the entry turn and a first turn that     *)
(* cost HP                                                                *)
C34_Witness ==
    /\ AfterApply
    /\ Len(last.pre.history) = 2
    /\ last.pre.history[2].hp_delta < 0
    /\ Len(Cur.history) = 3
    /\ Cur.history[3].hp_delta = 0

(* s is a prefix of t *)
IsPrefix(s, t) == Len(s) <= Len(t) /\ SubSeq(t, 1, Len(s)) = s

(* C35: a character's memory is cleared by reset only.  Over every step   *)
(* that is not a reset of the session (or a create that replaces it) the  *)
(* memory of each of its characters, as get returns it, stays a prefix of *)
(* the memory after the step and grows by whole exchanges of two          *)
(* messages; this holds for the steps of process_turn calls, also those   *)
(* that end in an error.                                                  *)
C35_MemoryOnlyGrows ==
    [][\A sid \in TwoSessions.sids :
          (Get(sid) # NoSession /\ Get(sid)' # NoSession) =>
              \/ ResetBy(Only(sid))
              \/ CreateBy(Only(sid))
              \/ \A a \in ActorIds :
                    /\ IsPrefix(Get(sid).actors[a].memory, Get(sid)'.actors[a].memory)
                    /\ (Len(Get(sid)'.actors[a].memory)
                          - Len(Get(sid).actors[a].memory)) % 2 = 0]_vars

(* a process_turn call on a session whose character holds an exchange    *)
(* has ended in an error after the judge answered, the memory is there    *)
C35_Witness ==
    /\ call.pc = "done"
    /\ call.error = "TypeError"
    /\ call.sid \in DOMAIN cache
    /\ cache[call.sid].actors["a1"].memory # <<>>
    /\ cache[call.sid].actors["a1"].memory = call.pre.actors["a1"].memory

----------------------------------------------------------------------------
(* _narrative_arc_phase (utilities/prompt_builder.py), on its own *)

MaxArcSteps == 10

NarrativeArcPhase(current_step, max_steps) ==
    LET steps_remaining == max_steps - current_step
        midpoint == max_steps \div 2
    IN  IF steps_remaining <= 1 THEN "FINAL"
        ELSE IF steps_remaining = 2 THEN "CLOSING"
        ELSE IF current_step <= midpoint \div 2 THEN "OPENING"
        ELSE IF current_step <= midpoint THEN "MID"
        ELSE "ESCALATION"

InitArc ==
    /\ InitCore
    /\ mock_sessions = EmptyDict
    /\ probe \in {[fn |-> "step", current_step |-> cs, max_steps |-> ms] :
                    ms \in 1..MaxArcSteps, cs \in 0..MaxArcSteps}
    /\ probe.current_step <= probe.max_steps

NarrativeArcPhaseCall ==
    /\ probe.fn = "step"
    /\ probe' = [fn |-> "_narrative_arc_phase",
                 current_step |-> probe.current_step,
                 max_steps |-> probe.max_steps,
                 out |-> NarrativeArcPhase(probe.current_step, probe.max_steps)]
    /\ UNCHANGED <<cache, db, actor_agents, call, call2, last, mock_sessions>>

NextArc == NarrativeArcPhaseCall

SpecArc == InitArc /\ [][NextArc]_vars

(* C36: for max_steps = 6 _narrative_arc_phase gives the phases of its    *)
(* documented table: OPENING at steps 1 and 2, MID at step 3, ESCALATION  *)
(* at step 4, CLOSING at step 5, and FINAL at the last step only.         *)
C36_ArcPhaseTable ==
    (probe.fn = "_narrative_arc_phase" /\ probe.max_steps = 6) =>
        /\ probe.current_step \in {1, 2} => probe.out = "OPENING"
        /\ probe.current_step = 3 => probe.out = "MID"
        /\ probe.current_step = 4 => probe.out = "ESCALATION"
        /\ probe.current_step = 5 => probe.out = "CLOSING"
        /\ probe.out = "FINAL" => probe.current_step = 6

C38_NoTurnOnEndedSession ==
    /\ (call.pc = "done" /\ call.pre # NoSession /\ call.pre.status # "active") =>
          Get(call.sid).history = call.pre.history
    /\ \A sid \in SessionIds :
          Get(sid) # NoSession =>
              /\ 0 <= Get(sid).current_step
              /\ Get(sid).current_step <= Get(sid).max_steps

(* C39: a session that is won has HP left.  A session that is lost has no *)
(* HP left unless a turn flagged as a critical failure was committed to   *)
(* it, and process_turn commits no such turn: a call whose evaluation is  *)
(* a critical failure leaves the session as it found it, so a session     *)
(* lost through process_turn has player_hp = 0.                           *)
C39_WonHasHpLostHasNone ==
    /\ \A sid \in SessionIds :
          LET state == Get(sid) IN
          state # NoSession =>
              /\ state.status = "won" => state.player_hp > 0
              /\ state.status = "lost" =>
                    \/ state.player_hp = 0
                    \/ \E i \in 1..Len(state.history) :
                          /\ state.history[i].evaluation # NoEval
                          /\ state.history[i].evaluation.is_critical_failure
    /\ (call.pc = "done" /\ call.evaluation # NoEval
            /\ call.evaluation.is_critical_failure) =>
          Get(call.sid) = call.pre

(* a session won on its last step after a turn that cost HP *)
C39_Witness ==
    /\ AfterApply
    /\ Cur.status = "won"
    /\ last.pre.status = "active"
    /\ Cur.player_hp > 0
    /\ Cur.player_hp < last.pre.player_hp

====
